---- MODULE Spec2Model ----
(***************************************************************************)
(* fractal-connector: the offline queue (src/core/queue.py), the connector *)
(* engine (src/core/engine.py) and the Fractal websocket client            *)
(* (src/core/websocket_client.py) as state machines.                       *)
(*                                                                         *)
(* Spec          the engine with its per-source sync loops and the client, *)
(*               the configured sources fixed at start                     *)
(* FairSpec      Spec with the scheduling of the asyncio event loop        *)
(* SpecQueue     the OfflineQueue API called in any order on a small queue *)
(* SpecQueueFull the same API on a queue that starts at or next to         *)
(*               max_size >= 100 rows, where the eviction of enqueue acts  *)
(* SpecClient    one FractalClient with its receive and reconnect tasks    *)
(* SpecSources   the engine with sources added and removed while it runs   *)
(* SpecTest      test_data_source called on an engine that starts and stops *)
(* SpecLifecycle the engine's calls with their suspension points: start,   *)
(*               add_data_source, stop and the handlers of commands        *)
(* SpecValidate  validate_credentials (src/plugins/base.py) on its own     *)
(***************************************************************************)
EXTENDS Integers, Sequences, FiniteSets, TLC

(***************************************************************************)
(* Bounds of the model.                                                    *)
(***************************************************************************)
MaxEnqueues == 3    \* rows inserted in one behaviour that starts with an empty table
MaxFullEnqueues == 1 \* rows inserted in one behaviour that starts with a filled table
MaxAttempts == 2    \* mark_failure is not called on a row that already has this many attempts
MaxBatch == 2       \* largest batch_size handed to dequeue
RecordsPerTick == 2 \* records one fetch_data call of source S1 yields when it does not raise
MaxSleeps == 8      \* backoff sleeps of _reconnect between two successful connects
MaxAdds == 2        \* add_data_source calls in one behaviour
MaxFields == 2      \* credential fields a plugin declares
MaxCommands == 1    \* messages of the remote end the engine handles in one behaviour
MaxYield == 1        \* records one fetch_data call of a sync_now command yields
MaxChains == 2      \* tasks of one FractalClient that are alive at a time

(***************************************************************************)
(* Program constants.                                                      *)
(***************************************************************************)
EvictBatch == 100   \* queue.py:105  LIMIT 100
InitialDelay == 1   \* websocket_client.py:36  self._reconnect_delay = 1
BackoffFactor == 2  \* websocket_client.py:211  self._reconnect_delay * 2
BackoffCap == 60    \* websocket_client.py:211  min(..., 60)

Sources == {"S1", "S2"}
Errors == {"e1"}
NoError == "None"           \* last_error TEXT, NULL until mark_failure
NoTime == <<>>              \* MIN(created_at) of an empty table is NULL
StorageFailures == {"none", "connect", "count", "delete", "insert", "commit"}

VARIABLES
    queue,        \* the rows of table queue, in rowid order
    seq_id,       \* sqlite_sequence: the largest id AUTOINCREMENT has handed out
    clock,        \* the datetime.utcnow() of the last stored row, as a number (isoformat
                  \* strings order as the times do); a later reading is not earlier
    max_size,     \* OfflineQueue.max_size
    max_retries,  \* OfflineQueue.max_retries
    id_cap,       \* bound: enqueue is not called once seq_id has reached it
    dead,         \* history: ids of the rows that mark_failure has taken to max_retries attempts
    plan,         \* the index by which SQLite answers the SELECT of dequeue
    ret,          \* the last queue call: its name, arguments and what it returned
    running,      \* ConnectorEngine._running
    config,       \* ids of the enabled entries of config.data_sources
    active,       \* keys of ConnectorEngine._active_plugins
    tasks,        \* keys of ConnectorEngine._sync_tasks
    task,         \* source id -> the _sync_loop task last created for it
    client,       \* ConnectorEngine._fractal_client is not None
    c_running,    \* FractalClient._running
    c_connected,  \* FractalClient._connected
    ws,           \* FractalClient._ws: "none", "open", or "dead" (the object of a
                  \* connection that has closed or broken)
    phase,        \* the FractalClient: "new", "started" (start was called), "stopped"
                  \* (stop / disconnect has returned)
    delay,        \* FractalClient._reconnect_delay
    rx,           \* the _receive_loop task last created: "none", "test" (at its while
                  \* test), "recv" (in await recv), "done", "cancelled"
    rc,           \* the _reconnect task last created: "none", "test" (at its while
                  \* test), "sleep", "connect" (in await connect), "done"
    conn,         \* the connect() call in progress: who called it and where it is
    auth,         \* the auth envelope of the current connection: "none", "inflight",
                  \* "sent", "failed"
    slept,        \* history: the delays _reconnect has slept since the last successful
                  \* connect (or since start)
    sret,         \* the last FractalClient.send call: what it was given and what it did
    last_msg,     \* the payload the running _receive_loop handled last
    removed,      \* history: ids remove_data_source was called for, not added since
    aret,         \* the last add_data_source or test_data_source call: its arguments
                  \* and what it returned
    vin,          \* validate_credentials: the declared fields and the credentials map
    vret,         \* validate_credentials: what the call returned
    entries,      \* source id -> what its entry of config.data_sources and the
                  \* adapter made for it are like: "disabled" (enabled is false),
                  \* "unregistered" (its plugin type is not in the registry), "refuses"
                  \* (the adapter's connect returns False), "raises" (the adapter's
                  \* connect raises) or "ok"
    flaky,        \* ids of the sources whose adapter raises in disconnect
    plugged,      \* ids of the sources whose adapter has connected and has not been
                  \* told to disconnect since
    status,       \* the statuses _notify_status has published since start was called
    call,         \* the start or add_data_source call in progress and the await it is in
    cmd,          \* the task of _on_fractal_message last created by on_message
    crit,         \* caller thread -> the OfflineQueue call it is in: the object, the
                  \* operation, and whether it waits for or holds the object's _lock
    walk,         \* the loop of stop over _active_plugins.values(): the keys the map
                  \* had when the loop began, the adapters visited, the one whose
                  \* disconnect is awaited
    loops,        \* a FractalClient that may be started again: its tasks that have
                  \* not ended (the call of start, _receive_loop and _reconnect
                  \* tasks), each with the await it is in
    rtask,        \* FractalClient._receive_task: the slot of the task it refers to, 0
                  \* when it is None or refers to a task that has ended
    notified,     \* the callback the client called last: "none", "on_connect",
                  \* "on_disconnect"
    leaked        \* the number of open connections no field of the client refers to

qvars == <<queue, seq_id, clock, max_size, max_retries, id_cap, plan, dead, ret>>
evars == <<running, config, active, tasks, task, client, c_running, c_connected, ws>>
tvars == <<phase, delay, rx, rc, conn, auth, slept, sret, last_msg>>
pvars == <<vin, vret>>
lvars == <<entries, flaky, plugged, status, call, cmd>>
xvars == <<crit, walk, loops, rtask, notified, leaked>>
vars == <<queue, seq_id, clock, max_size, max_retries, id_cap, plan, dead, ret,
          running, config, active, tasks, task, client, c_running, c_connected, ws,
          phase, delay, rx, rc, conn, auth, slept, sret, last_msg, removed, aret,
          vin, vret, entries, flaky, plugged, status, call, cmd, crit, walk,
          loops, rtask, notified, leaked>>

Min(a, b) == IF a <= b THEN a ELSE b

\* No engine was constructed: the queue is used on its own.
EngineIdle ==
    /\ running = FALSE
    /\ config = {}
    /\ active = {}
    /\ tasks = {}
    /\ task = [s \in Sources |-> [pc |-> "none", pos |-> 0, inflight |-> {}, sockfail |-> FALSE,
                                  log |-> <<>>, last_failed |-> FALSE]]
    /\ client = FALSE
    /\ c_running = FALSE
    /\ c_connected = FALSE
    /\ ws = "none"

NoConn == [pc |-> "none", by |-> "none"]
NoSend == [kind |-> "none", connected |-> FALSE, wrote |-> FALSE, result |-> FALSE,
           fields |-> {}]

\* FractalClient.__init__; in the specifications of the queue and of the
\* engine nothing more of the client is followed than _running, _connected
\* and _ws.
TransportIdle ==
    /\ phase = "new"
    /\ delay = InitialDelay
    /\ rx = "none"
    /\ rc = "none"
    /\ conn = NoConn
    /\ auth = "none"
    /\ slept = <<>>
    /\ sret = NoSend
    /\ last_msg = "none"

NoAdd == [n |-> 0, ok |-> FALSE, msg |-> <<>>, id |-> "none", plugin_type |-> "none",
          credentials |-> "none", tested |-> FALSE, test |-> <<>>,
          was_running |-> FALSE, connected |-> FALSE, via_ui |-> FALSE,
          op |-> "none", eph |-> "none"]

\* No source was added or removed through the engine's API.
SourcesIdle ==
    /\ removed = {}
    /\ aret = NoAdd

NoInput == [fields |-> <<>>, credentials |-> <<>>]
NoResult == <<>>

\* validate_credentials was not called.
ValidateIdle ==
    /\ vin = NoInput
    /\ vret = NoResult

\* The threads that call the queue, and a call that none of them is in.
Threads == {"T1", "T2"}
NoCrit == [obj |-> "none", op |-> "none", pc |-> "idle"]

\* No thread is inside a call of the queue.
NoWalk == [pc |-> "none", cur |-> "none", over |-> {}, visited |-> {}]

\* The tasks of one client that are followed at a time.
Chains == 1..MaxChains
NoLoop == [kind |-> "none", pc |-> "none", sock |-> "none"]

\* No thread is inside a call of the queue, stop is not followed through its
\* loop, and the client has made no task and called no callback.
ExtraIdle ==
    /\ crit = [t \in Threads |-> NoCrit]
    /\ walk = NoWalk
    /\ loops = [t \in Chains |-> NoLoop]
    /\ rtask = 0
    /\ notified = "none"
    /\ leaked = 0

NoCall == [op |-> "none", pc |-> "none", cur |-> "none", todo |-> <<>>]
NoCmd == [n |-> 0, pc |-> "none", type |-> "none", command |-> "none", source_id |-> "none",
          found |-> FALSE, calls |-> <<>>]

\* Every entry of the config is enabled and of a registered type; the
\* adapters' own connections, the published statuses, the suspension points
\* of start and add_data_source and the tasks of the message handler are
\* not followed.
LifecycleIdle ==
    /\ entries = [s \in Sources |-> "ok"]
    /\ flaky = {}
    /\ plugged = {}
    /\ status = <<>>
    /\ call = NoCall
    /\ cmd = NoCmd

(***************************************************************************)
(* The table.                                                              *)
(***************************************************************************)
\* One row as INSERT writes it: attempts takes its DEFAULT 0, last_error NULL.
\* data stands for the columns the queue only stores and hands back
\* (source_type, timestamp, data, metadata).
NewRow(id, source_id, data, now) ==
    [id |-> id, source_id |-> source_id, data |-> data,
     created_at |-> now, attempts |-> 0, last_error |-> NoError]

Ids(q) == {q[i].id : i \in DOMAIN q}

Times(q) == {q[i].created_at : i \in DOMAIN q}

CountUpTo(q, t) == Cardinality({i \in DOMAIN q : q[i].created_at <= t})

CountBefore(q, t) == Cardinality({i \in DOMAIN q : q[i].created_at < t})

\* The k-th smallest created_at of q (1 <= k <= Len(q)).
KthTime(q, k) ==
    CHOOSE t \in Times(q) : CountBefore(q, t) < k /\ k <= CountUpTo(q, t)

\* ORDER BY created_at DESC in place of ASC
OldestIdsDesc(q, k) ==
    IF Len(q) <= k THEN {Ids(q)}
    ELSE {{q[i].id : i \in (Len(q) - k + 1)..Len(q)}}

\* SELECT id FROM queue ORDER BY created_at ASC LIMIT k: every set of ids the
\* statement may produce.  Rows with equal created_at come in an order SQL
\* leaves open, so a tie across the limit is a choice.
OldestIds(q, k) ==
    IF Len(q) <= k THEN {Ids(q)}
    ELSE IF k = 0 THEN {{}}
    ELSE LET t == KthTime(q, k)
             below == {q[i].id : i \in {j \in DOMAIN q : q[j].created_at < t}}
             ties == {q[i].id : i \in {j \in DOMAIN q : q[j].created_at = t}}
         IN  {below \cup X :
                X \in {Y \in SUBSET ties : Cardinality(Y) = k - Cardinality(below)}}

\* DELETE FROM queue WHERE id IN ids
DeleteNone(q, ids) == q
DeleteIds(q, ids) == SelectSeq(q, LAMBDA r : r.id \notin ids)

\* id INTEGER PRIMARY KEY AUTOINCREMENT: one more than the largest id ever used.
NextIdReuse(q, sq) ==
    IF q = <<>> THEN 1
    ELSE 1 + (CHOOSE m \in Ids(q) : \A i \in Ids(q) : i <= m)
NextId(q, sq) == sq + 1

\* A call that raises before conn.commit() leaves its connection unreferenced;
\* closing it discards the open transaction, so the table is what it was.
RollbackKeepsTx(before, tx) == tx
Rollback(before, tx) == before

\* WHERE attempts < max_retries
Eligible(q, mr) == SelectSeq(q, LAMBDA r : r.attempts < mr)

\* ORDER BY created_at ASC with rows of equal created_at in any order
DequeueResultsUnordered(q, mr, n) ==
    LET e == Eligible(q, mr)
        m == Min(n, Len(e))
    IN  IF m = 0 THEN {<<>>}
        ELSE LET t == KthTime(e, m)
                 cand == {i \in DOMAIN e : e[i].created_at <= t}
                 picks == {f \in [1..m -> cand] :
                             /\ \A a, b \in 1..m : a < b =>
                                   /\ f[a] # f[b]
                                   /\ e[f[a]].created_at <= e[f[b]].created_at
                             /\ \A i \in cand : e[i].created_at < t =>
                                   \E a \in 1..m : f[a] = i}
             IN  {[j \in 1..m |-> e[f[j]]] : f \in picks}

\* The ways SQLite can answer the SELECT of dequeue with the indexes
\* _init_db makes: a scan of idx_created, or a search of idx_attempts
\* followed by a sort on created_at.
Plans == {"idx_created", "idx_attempts"}

\* SELECT ... WHERE attempts < ? ORDER BY created_at ASC LIMIT ?: the rows the
\* statement returns.  ORDER BY names created_at alone; rows of equal
\* created_at come in the order of the index the statement is answered by:
\* by rowid under idx_created, by (attempts, rowid) under idx_attempts.
DequeueResults(q, mr, n) ==
    LET e == Eligible(q, mr)
        m == Min(n, Len(e))
        Key(i) == IF plan = "idx_attempts" THEN e[i].attempts ELSE 0
        Before(i, j) == \/ e[i].created_at < e[j].created_at
                        \/ /\ e[i].created_at = e[j].created_at
                           /\ \/ Key(i) < Key(j)
                              \/ Key(i) = Key(j) /\ e[i].id < e[j].id
        Rank(i) == 1 + Cardinality({j \in DOMAIN e : Before(j, i)})
    IN  {[k \in 1..m |-> e[CHOOSE i \in DOMAIN e : Rank(i) = k]]}

NoStats == [total |-> 0, pending |-> 0, dead_letter |-> 0, oldest_record |-> NoTime]

Stats(q, mr) ==
    LET total == Len(q)
        dead_letter == Cardinality({i \in DOMAIN q : q[i].attempts >= mr})
    IN  [total |-> total, pending |-> total - dead_letter, dead_letter |-> dead_letter,
         oldest_record |->
            IF q = <<>> THEN NoTime
            ELSE <<CHOOSE t \in Times(q) : \A u \in Times(q) : t <= u>>]

\* UPDATE queue SET attempts = attempts + 1, last_error = ? WHERE id = ?
UpdateEveryRow(q, record_id, error) ==
    [i \in DOMAIN q |-> [q[i] EXCEPT !.attempts = @ + 1, !.last_error = error]]
UpdateFailure(q, record_id, error) ==
    [i \in DOMAIN q |->
        IF q[i].id = record_id
        THEN [q[i] EXCEPT !.attempts = @ + 1, !.last_error = error]
        ELSE q[i]]

NoRet == [op |-> "none", ok |-> TRUE, fail |-> "none", id |-> 0, error |-> NoError,
          n |-> 0, count |-> 0, records |-> <<>>, stats |-> NoStats]

(***************************************************************************)
(* OfflineQueue operations.                                                *)
(***************************************************************************)
\* fail names the statement at which the storage raises ("none": no failure).
enqueue(source_id, data, adv, fail) ==
    /\ seq_id < id_cap
    /\ LET count == Len(queue)
           now == clock + adv
           full == count >= max_size
       IN  /\ fail = "delete" => full
           /\ \E victims \in (IF full THEN OldestIds(queue, EvictBatch) ELSE {{}}) :
                LET qdel == DeleteIds(queue, victims)
                    id == NextId(qdel, seq_id)
                    qins == Append(qdel, NewRow(id, source_id, data, now))
                    tx == CASE fail \in {"connect", "count", "delete"} -> queue
                            [] fail = "insert" -> qdel
                            [] OTHER -> qins
                IN  /\ queue' = IF fail = "none" THEN tx ELSE Rollback(queue, tx)
                    /\ seq_id' = IF fail = "none" THEN id ELSE seq_id
                    /\ ret' = [NoRet EXCEPT !.op = "enqueue", !.ok = (fail = "none"),
                                            !.fail = fail,
                                            !.id = IF fail = "none" THEN id ELSE 0,
                                            !.count = count]
           /\ clock' = IF fail = "none" THEN now ELSE clock
    /\ UNCHANGED <<max_size, max_retries, id_cap, plan, dead>>
    /\ UNCHANGED <<evars, tvars, pvars, xvars, lvars, removed, aret>>

dequeue(batch_size, fail) ==
    /\ \E res \in (IF fail THEN {<<>>} ELSE DequeueResults(queue, max_retries, batch_size)) :
          ret' = [NoRet EXCEPT !.op = "dequeue", !.ok = ~fail, !.n = batch_size,
                               !.records = res]
    /\ UNCHANGED <<queue, seq_id, clock, max_size, max_retries, id_cap, plan, dead>>
    /\ UNCHANGED <<evars, tvars, pvars, xvars, lvars, removed, aret>>

mark_success(record_ids, fail) ==
    /\ queue' = IF record_ids = {} \/ fail THEN queue ELSE DeleteIds(queue, record_ids)
    /\ ret' = [NoRet EXCEPT !.op = "mark_success", !.ok = ~fail]
    /\ UNCHANGED <<seq_id, clock, max_size, max_retries, id_cap, plan, dead>>
    /\ UNCHANGED <<evars, tvars, pvars, xvars, lvars, removed, aret>>

mark_failure(record_id, error, fail) ==
    /\ \A i \in DOMAIN queue : queue[i].id = record_id => queue[i].attempts < MaxAttempts
    /\ queue' = IF fail THEN queue ELSE UpdateFailure(queue, record_id, error)
    /\ dead' = dead \cup {queue'[i].id : i \in {j \in DOMAIN queue' :
                        /\ queue'[j].id = record_id
                        /\ queue'[j].attempts # queue[j].attempts
                        /\ queue'[j].attempts >= max_retries}}
    /\ ret' = [NoRet EXCEPT !.op = "mark_failure", !.ok = ~fail, !.id = record_id,
                            !.error = error]
    /\ UNCHANGED <<seq_id, clock, max_size, max_retries, id_cap, plan>>
    /\ UNCHANGED <<evars, tvars, pvars, xvars, lvars, removed, aret>>

get_stats(fail) ==
    /\ ret' = [NoRet EXCEPT !.op = "get_stats", !.ok = ~fail,
                            !.stats = IF fail THEN NoStats ELSE Stats(queue, max_retries)]
    /\ UNCHANGED <<queue, seq_id, clock, max_size, max_retries, id_cap, plan, dead>>
    /\ UNCHANGED <<evars, tvars, pvars, xvars, lvars, removed, aret>>

clear(fail) ==
    /\ queue' = IF fail THEN queue ELSE <<>>
    /\ ret' = [NoRet EXCEPT !.op = "clear", !.ok = ~fail]
    /\ UNCHANGED <<seq_id, clock, max_size, max_retries, id_cap, plan, dead>>
    /\ UNCHANGED <<evars, tvars, pvars, xvars, lvars, removed, aret>>

(***************************************************************************)
(* The callers of the queue.  The ids a caller names: the first id, the    *)
(* most recent one, and 0, which no row ever has.                          *)
(***************************************************************************)
CallerIds == {0, 1, seq_id}

QueueNext ==
    \/ \E s \in {"S1"}, adv \in {0, 1}, fail \in StorageFailures : enqueue(s, 1, adv, fail)
    \/ \E n \in 0..MaxBatch, fail \in BOOLEAN : dequeue(n, fail)
    \/ \E ids \in {X \in SUBSET CallerIds : Cardinality(X) <= 2}, fail \in BOOLEAN :
          mark_success(ids, fail)
    \/ \E id \in CallerIds, e \in Errors, fail \in BOOLEAN : mark_failure(id, e, fail)
    \/ \E fail \in BOOLEAN : get_stats(fail)
    \/ \E fail \in BOOLEAN : clear(fail)

QueueInit ==
    /\ EngineIdle
    /\ TransportIdle
    /\ SourcesIdle
    /\ ValidateIdle
    /\ ExtraIdle
    /\ LifecycleIdle
    /\ queue = <<>>
    /\ seq_id = 0
    /\ clock = 0
    /\ max_size \in {1, 2}
    /\ max_retries \in 1..2
    /\ id_cap = MaxEnqueues
    /\ plan = "idx_created"
    /\ dead = {}
    /\ ret = NoRet

SpecQueue == QueueInit /\ [][QueueNext]_vars

\* The order of what dequeue returns: the same calls on a table of two rows
\* and two attempts, under either plan.  SpecQueue and SpecQueueFull follow
\* the scan of idx_created.
OrderInit ==
    /\ EngineIdle
    /\ TransportIdle
    /\ SourcesIdle
    /\ ValidateIdle
    /\ ExtraIdle
    /\ LifecycleIdle
    /\ queue = <<>>
    /\ seq_id = 0
    /\ clock = 0
    /\ max_size = 2
    /\ max_retries = 2
    /\ id_cap = MaxEnqueues
    /\ plan \in Plans
    /\ dead = {}
    /\ ret = NoRet

OrderNext ==
    \/ \E adv \in {0, 1} : enqueue("S1", 1, adv, "none")
    \/ \E n \in 0..MaxBatch, fail \in BOOLEAN : dequeue(n, fail)
    \/ \E id \in CallerIds : mark_success({id}, FALSE)
    \/ \E id \in CallerIds : mark_failure(id, "e1", FALSE)
    \/ get_stats(FALSE)
    \/ clear(FALSE)

SpecOrder == OrderInit /\ [][OrderNext]_vars

\* A table that n successful enqueue calls have filled: ids 1..n, two rows to
\* each clock reading, no delivery attempted yet.
FilledQueue(n) == [i \in 1..n |-> NewRow(i, "S1", 1, i \div 2)]

QueueFullInit ==
    /\ EngineIdle
    /\ TransportIdle
    /\ SourcesIdle
    /\ ValidateIdle
    /\ ExtraIdle
    /\ LifecycleIdle
    /\ max_size \in {EvictBatch, EvictBatch + 1}
    /\ queue = FilledQueue(max_size)
    /\ seq_id = max_size
    /\ id_cap = max_size + MaxFullEnqueues
    /\ plan = "idx_created"
    /\ clock = max_size \div 2
    /\ max_retries = 1
    /\ dead = {}
    /\ ret = NoRet

\* The same calls with fewer arguments: the table is a hundred rows wide.
QueueFullNext ==
    \/ \E adv \in {0, 1}, fail \in StorageFailures : enqueue("S1", 1, adv, fail)
    \/ dequeue(MaxBatch, FALSE)
    \/ mark_success({1}, FALSE)
    \/ \E id \in {1, seq_id}, e \in Errors : mark_failure(id, e, FALSE)
    \/ get_stats(FALSE)
    \/ clear(FALSE)

SpecQueueFull == QueueFullInit /\ [][QueueFullNext]_vars

(***************************************************************************)
(* The engine and the client.                                              *)
(***************************************************************************)
\* A _sync_loop task.  pc: "none" no task was created, "loop" at the while
\* test, "fetch" inside _trigger_sync waiting for the adapter's next record,
\* "send" inside _trigger_sync waiting for send_data, "sleep" in
\* asyncio.sleep(interval), "done" returned, "cancelled".
\* pos: records the running fetch_data call has yielded so far.
\* inflight: records whose send_data call has started and not returned.
\* sockfail: the socket an in-flight send_data writes to has closed or broken.
\* log: what _trigger_sync did with each record of the running (or last)
\* fetch_data call, in the order it was done.
\* last_failed: the sync attempt before the running one ended by an exception.
NoTask == [pc |-> "none", pos |-> 0, inflight |-> {}, sockfail |-> FALSE,
           log |-> <<>>, last_failed |-> FALSE]
NewTask == [NoTask EXCEPT !.pc = "loop"]

\* task.cancel(): the task ends at the await it is suspended in.
Cancel(tk) ==
    IF tk.pc \in {"none", "done"} THEN tk ELSE [NoTask EXCEPT !.pc = "cancelled"]

\* FractalClient.is_connected
is_connected == c_connected /\ ws # "none"

EngineInit ==
    /\ running = FALSE
    /\ config = Sources
    /\ active = {}
    /\ tasks = {}
    /\ task = [s \in Sources |-> NoTask]
    /\ client = FALSE
    /\ c_running = FALSE
    /\ c_connected = FALSE
    /\ ws = "none"

\* ConnectorEngine.start: the client is made and started (connect succeeds
\* or not), then every enabled source whose adapter connects gets a task.
start(connect_ok, connecting) ==
    /\ ~running
    /\ running' = TRUE
    /\ client' = TRUE
    /\ c_running' = TRUE
    /\ c_connected' = connect_ok
    /\ ws' = IF connect_ok THEN "open" ELSE "none"
    /\ active' = active \cup (config \cap connecting)
    /\ tasks' = tasks \cup (config \cap connecting)
    /\ task' = [s \in Sources |-> IF s \in config \cap connecting THEN NewTask ELSE task[s]]
    /\ UNCHANGED config
    /\ UNCHANGED <<qvars, tvars, pvars, xvars, lvars, removed, aret>>

\* task.cancel() of a task made on an event loop that was closed since
\* raises RuntimeError (the future the task waits for cannot schedule its
\* callbacks).
CancelRaises(tk) == tk.pc = "stranded"

\* ConnectorEngine.stop, with FractalClient.stop / disconnect
stop ==
    /\ running
    /\ \A s \in tasks : ~CancelRaises(task[s])
    /\ running' = FALSE
    /\ task' = [s \in Sources |-> IF s \in tasks THEN Cancel(task[s]) ELSE task[s]]
    /\ active' = {}
    /\ tasks' = {}
    /\ c_running' = FALSE
    /\ c_connected' = FALSE
    /\ ws' = "none"
    /\ UNCHANGED <<config, client>>
    /\ UNCHANGED <<qvars, tvars, pvars, xvars, lvars, removed, aret>>

\* ConfigManager.remove_data_source: the list without the entries of that id
WithoutSource(cfg, s) == cfg \ {s}

\* ConnectorEngine.remove_data_source, the task's cancel and the adapter's
\* disconnect returning
remove_data_source(s) ==
    /\ s \in tasks => ~CancelRaises(task[s])
    /\ task' = IF s \in tasks THEN [task EXCEPT ![s] = Cancel(@)] ELSE task
    /\ tasks' = tasks \ {s}
    /\ active' = active \ {s}
    /\ config' = WithoutSource(config, s)
    /\ removed' = removed \cup {s}
    /\ UNCHANGED <<running, client, c_running, c_connected, ws>>
    /\ UNCHANGED <<qvars, tvars, pvars, xvars, lvars, aret>>

\* The records one fetch_data call of the adapter of s yields when it does
\* not raise: the adapters differ.
Yields(s) == IF s = "S1" THEN RecordsPerTick ELSE 1

\* What the task does after an exception of the adapter during a sync
\* attempt: _trigger_sync catches it, _sync_loop goes on to its sleep.
AfterFetchErrorExit == "done"
AfterFetchError == "sleep"

\* What the task does once send_data has been called: it awaits the call.
SendNotAwaited == "fetch"
SendAwaited == "send"

\* _sync_loop at its while test; a true test enters _trigger_sync, which
\* finds the plugin and calls fetch_data.
_sync_loop(s) ==
    /\ task[s].pc = "loop"
    /\ task' = [task EXCEPT ![s] =
                  IF running /\ s \in active
                  THEN [@ EXCEPT !.pc = "fetch", !.pos = 0, !.inflight = {}, !.log = <<>>]
                  ELSE [NoTask EXCEPT !.pc = "done"]]
    /\ UNCHANGED <<running, config, active, tasks, client, c_running, c_connected, ws>>
    /\ UNCHANGED <<qvars, tvars, pvars, xvars, lvars, removed, aret>>

\* _trigger_sync at async for: the adapter yields its next record, ends the
\* sequence, or raises.  A yielded record goes to send_data when the client
\* reports connected and nowhere otherwise.
_trigger_sync(s, raises) ==
    /\ task[s].pc = "fetch"
    /\ task' = [task EXCEPT ![s] =
                  IF raises THEN [@ EXCEPT !.pc = AfterFetchError, !.last_failed = TRUE]
                  ELSE IF @.pos >= Yields(s)
                       THEN [@ EXCEPT !.pc = "sleep", !.last_failed = FALSE]
                  ELSE IF client /\ is_connected
                       THEN [@ EXCEPT !.pos = @ + 1, !.inflight = @ \cup {task[s].pos + 1},
                                      !.sockfail = @ \/ ws = "dead",
                                      !.pc = SendAwaited]
                       ELSE [@ EXCEPT !.pos = @ + 1,
                                      !.log = Append(@, [rec |-> task[s].pos + 1,
                                                         outcome |-> "not_connected"])]]
    /\ UNCHANGED <<running, config, active, tasks, client, c_running, c_connected, ws>>
    /\ UNCHANGED <<qvars, tvars, pvars, xvars, lvars, removed, aret>>

\* FractalClient.send_data / send returning to _trigger_sync: the envelope
\* was written, or the write raised and send returned False; send_data
\* drops the result either way.
send(s, r) ==
    /\ task[s].pc \in {"fetch", "send"}
    /\ r \in task[s].inflight
    /\ task' = [task EXCEPT ![s] =
                  [@ EXCEPT !.inflight = @ \ {r},
                            !.sockfail = @ /\ task[s].inflight # {r},
                            !.pc = IF @ = "send" THEN "fetch" ELSE @,
                            !.log = Append(@, [rec |-> r,
                                               outcome |-> IF task[s].sockfail
                                                           THEN "send_failed" ELSE "sent"])]]
    /\ UNCHANGED <<running, config, active, tasks, client, c_running, c_connected, ws>>
    /\ UNCHANGED <<qvars, tvars, pvars, xvars, lvars, removed, aret>>

\* asyncio.sleep(interval) of _sync_loop returns
sync_sleep(s) ==
    /\ task[s].pc = "sleep"
    /\ task' = [task EXCEPT ![s].pc = "loop"]
    /\ UNCHANGED <<running, config, active, tasks, client, c_running, c_connected, ws>>
    /\ UNCHANGED <<qvars, tvars, pvars, xvars, lvars, removed, aret>>

\* The server closes the connection or the network breaks it.
connection_lost ==
    /\ ws = "open"
    /\ ws' = "dead"
    /\ task' = [s \in Sources |-> [task[s] EXCEPT !.sockfail = task[s].inflight # {}]]
    /\ UNCHANGED <<running, config, active, tasks, client, c_running, c_connected>>
    /\ UNCHANGED <<qvars, tvars, pvars, xvars, lvars, removed, aret>>

\* _receive_loop: recv raises ConnectionClosed
_receive_loop ==
    /\ c_running /\ c_connected /\ ws = "dead"
    /\ c_connected' = FALSE
    /\ UNCHANGED <<running, config, active, tasks, task, client, c_running, ws>>
    /\ UNCHANGED <<qvars, tvars, pvars, xvars, lvars, removed, aret>>

\* _reconnect: one connect attempt after its sleep
_reconnect(connect_ok) ==
    /\ c_running /\ ~c_connected
    /\ c_connected' = connect_ok
    /\ ws' = IF connect_ok THEN "open" ELSE ws
    /\ UNCHANGED <<running, config, active, tasks, task, client, c_running>>
    /\ UNCHANGED <<qvars, tvars, pvars, xvars, lvars, removed, aret>>

Next ==
    \/ \E ok \in BOOLEAN, connecting \in SUBSET Sources : start(ok, connecting)
    \/ stop
    \/ \E s \in Sources : remove_data_source(s)
    \/ \E s \in Sources : _sync_loop(s)
    \/ \E s \in Sources, raises \in BOOLEAN : _trigger_sync(s, raises)
    \/ \E s \in Sources, r \in 1..RecordsPerTick : send(s, r)
    \/ \E s \in Sources : sync_sleep(s)
    \/ connection_lost
    \/ _receive_loop
    \/ \E ok \in BOOLEAN : _reconnect(ok)

\* The table outlives the process: it is empty, or holds a row that an
\* earlier enqueue call stored (data 0: none of the records fetched here).
Init ==
    /\ EngineInit
    /\ TransportIdle
    /\ SourcesIdle
    /\ ValidateIdle
    /\ ExtraIdle
    /\ LifecycleIdle
    /\ \E n \in 0..1 :
          /\ queue = [i \in 1..n |-> NewRow(i, "S1", 0, 0)]
          /\ seq_id = n
          /\ id_cap = n
          /\ plan = "idx_created"
          /\ clock = 0
    /\ max_size = 3
    /\ max_retries = 2
    /\ dead = {}
    /\ ret = NoRet

Spec == Init /\ [][Next]_vars

\* The event loop runs every task that can run: a sleep returns, an awaited
\* adapter or socket call returns or raises, the receive loop sees a closed
\* connection, the reconnect loop makes its next attempt.
FairSpec ==
    /\ Spec
    /\ \A s \in Sources :
          /\ WF_vars(_sync_loop(s))
          /\ WF_vars(\E raises \in BOOLEAN : _trigger_sync(s, raises))
          /\ WF_vars(\E r \in 1..RecordsPerTick : send(s, r))
          /\ WF_vars(sync_sleep(s))
    /\ WF_vars(_receive_loop)
    /\ WF_vars(\E ok \in BOOLEAN : _reconnect(ok))

(***************************************************************************)
(* Properties of the engine.                                               *)
(***************************************************************************)
\* The rows of the queue hold record r of source s, not yet retried.
Queued(s, r) ==
    \E i \in DOMAIN queue :
        queue[i].source_id = s /\ queue[i].data = r /\ queue[i].attempts = 0

\* fetch_data of source s has just been called.
FetchStarted(s) ==
    task[s].pc = "fetch" /\ task[s].pos = 0 /\ task[s].log = <<>>

Pending == \E i \in DOMAIN queue : queue[i].attempts < max_retries

\* C1: every record an adapter yields during _trigger_sync while the client
\* is not connected is in the queue with attempts = 0.
DisconnectedRecordsQueued ==
    \A s \in Sources : \A i \in DOMAIN task[s].log :
        task[s].log[i].outcome = "not_connected" => Queued(s, task[s].log[i].rec)

\* C2: every record whose send failed while the client reported connected is
\* in the queue.
FailedSendsQueued ==
    \A s \in Sources : \A i \in DOMAIN task[s].log :
        task[s].log[i].outcome = "send_failed" => Queued(s, task[s].log[i].rec)

\* C3: while the engine runs and the client is connected, every queued row
\* with attempts < max_retries is eventually delivered (removed) or
\* dead-lettered.
DrainLoopDelivers ==
    (running /\ is_connected /\ Pending) ~> (~running \/ ~is_connected \/ ~Pending)

HandOffInFetchOrder ==
    \A s \in Sources :
        LET tk == task[s]
        IN  /\ Cardinality(tk.inflight) <= 1
            /\ \A i, j \in DOMAIN tk.log : i < j => tk.log[i].rec < tk.log[j].rec
            /\ \A r \in tk.inflight : \A i \in DOMAIN tk.log : tk.log[i].rec < r

HandOffInFetchOrder_witness ==
    \E s \in Sources :
        /\ Len(task[s].log) = RecordsPerTick /\ RecordsPerTick >= 2
        /\ \A i \in DOMAIN task[s].log :
              task[s].log[i].outcome = "sent" /\ task[s].log[i].rec = i

(***************************************************************************)
(* Properties of the queue.                                                *)
(***************************************************************************)
RowOf(q, id) == q[CHOOSE i \in DOMAIN q : q[i].id = id]

\* The rows of q that q2 still holds are the same in q2, in the same order.
KeptUnchanged(q, q2) ==
    SelectSeq(q, LAMBDA r : r.id \in Ids(q2)) = SelectSeq(q2, LAMBDA r : r.id \in Ids(q))

\* C6: a successful enqueue on a table of exactly max_size rows
\* (max_size >= 100) deletes exactly 100 rows, none of them created later than
\* a row it keeps, and inserts the new row with attempts = 0, which leaves
\* max_size - 99 rows; on a table of fewer than max_size rows it deletes
\* nothing and the table grows by exactly the new row.
EnqueueEvictsOldestBatch ==
    [][(ret'.op = "enqueue" /\ ret'.ok) =>
         LET count == Len(queue)
             gone == Ids(queue) \ Ids(queue')
             new == Ids(queue') \ Ids(queue)
         IN  /\ new = {ret'.id}
             /\ RowOf(queue', ret'.id).attempts = 0
             /\ KeptUnchanged(queue, queue')
             /\ (count = max_size /\ max_size >= EvictBatch) =>
                    /\ Cardinality(gone) = EvictBatch
                    /\ \A g \in gone, k \in Ids(queue) \ gone :
                          RowOf(queue, g).created_at <= RowOf(queue, k).created_at
                    /\ Len(queue') = max_size - (EvictBatch - 1)
             /\ count < max_size => (gone = {} /\ Len(queue') = count + 1)
      ]_vars

EnqueueEvictsOldestBatch_witness ==
    /\ ret.op = "enqueue" /\ ret.ok
    /\ ret.count = max_size /\ max_size > EvictBatch
    /\ Len(queue) = max_size - (EvictBatch - 1)
    /\ 1 \notin Ids(queue)

\* C7: dequeue never returns a row whose attempts >= max_retries, and never a
\* row that mark_failure has once taken to max_retries attempts, whatever
\* calls came in between.
DequeueSkipsDeadLetters ==
    ret.op = "dequeue" =>
        \A i \in DOMAIN ret.records :
            /\ ret.records[i].attempts < max_retries
            /\ ret.records[i].id \notin dead

DequeueSkipsDeadLetters_witness ==
    /\ ret.op = "dequeue" /\ ret.records # <<>>
    /\ \E i \in DOMAIN queue : queue[i].id \in dead /\ queue[i].attempts > max_retries

MarkFailureFrame ==
    /\ [][(ret'.op = "mark_failure" /\ ret'.ok) =>
            /\ Len(queue') = Len(queue)
            /\ \A i \in DOMAIN queue :
                  IF queue[i].id = ret'.id
                  THEN queue'[i] = [queue[i] EXCEPT !.attempts = queue[i].attempts + 1,
                                                    !.last_error = ret'.error]
                  ELSE queue'[i] = queue[i]
         ]_vars
    /\ [][(\E i \in DOMAIN queue :
               queue[i].attempts >= max_retries /\ queue[i].id \notin Ids(queue'))
            => ret'.op \in {"mark_success", "clear", "enqueue"}
         ]_vars
    /\ [](ret.op = "get_stats" /\ ret.ok =>
            /\ ret.stats.total = Len(queue)
            /\ ret.stats.dead_letter =
                  Cardinality({i \in DOMAIN queue : queue[i].attempts >= max_retries}))

MarkFailureFrame_witness ==
    /\ ret.op = "mark_failure" /\ ret.ok
    /\ Len(queue) >= 2
    /\ \E i \in DOMAIN queue :
          /\ queue[i].id = ret.id
          /\ queue[i].attempts = max_retries
          /\ queue[i].last_error = ret.error

\* C10: every enqueue call returns: false with the table as it was before the
\* call when the storage fails at any statement (an eviction is not applied
\* without its insert), true with the new row stored, attempts = 0, otherwise.
EnqueueAllOrNothing ==
    [][ret'.op = "enqueue" =>
         IF ret'.ok
         THEN /\ ret'.fail = "none"
              /\ ret'.id \in Ids(queue') \ Ids(queue)
              /\ RowOf(queue', ret'.id).attempts = 0
         ELSE /\ ret'.fail # "none"
              /\ queue' = queue
      ]_vars

EnqueueAllOrNothing_witness ==
    /\ ret.op = "enqueue" /\ ~ret.ok
    /\ ret.fail \in {"insert", "commit"}
    /\ ret.count >= max_size
    /\ Len(queue) = ret.count

\* C29: the table never holds more than max_size rows, dead-lettered rows
\* included, whatever calls were made.
QueueSizeBounded ==
    Len(queue) <= max_size

QueueSizeBounded_witness ==
    /\ ret.op = "enqueue" /\ ret.ok
    /\ ret.count = max_size
    /\ Len(queue) = 1
    /\ \E i \in DOMAIN queue : queue[i].id > max_size

Payloads == {"envelope", "badjson", "nonobject"}
Malformed == {"badjson", "nonobject"}

\* The envelopes the engine hands to send: send_data, send_status.
Kinds == {"data", "status", "pong"}

\* The top-level keys of the envelope each sender builds: _send_auth,
\* send_data, send_status, and the pong reply of the engine's message
\* handler.  The timestamp of auth is a key of client_info.
Envelope(kind) ==
    CASE kind = "auth"   -> {"type", "api_key", "client_info"}
      [] kind = "data"   -> {"type", "source_id", "source_type", "timestamp", "data",
                             "metadata"}
      [] kind = "status" -> {"type", "status", "timestamp", "details"}
      [] kind = "pong"   -> {"type"}

\* Everything outside the client.
cfix == <<qvars, running, config, active, tasks, task, client, removed, aret, pvars, xvars, lvars>>

QueueIdle ==
    /\ queue = <<>>
    /\ seq_id = 0
    /\ clock = 0
    /\ max_size = 1
    /\ max_retries = 1
    /\ id_cap = 0
    /\ plan = "idx_created"
    /\ dead = {}
    /\ ret = NoRet

\* min(self._reconnect_delay * 2, 60)
NextDelayUncapped(d) == d * BackoffFactor
NextDelay(d) == Min(d * BackoffFactor, BackoffCap)

\* What send returns: False when not connected, True when the write did not
\* raise, False when it did.
SendReturnOptimistic(connected, wrote) == connected
SendReturn(connected, wrote) == connected /\ wrote

\* FractalClient.start up to its await of connect()
client_start ==
    /\ phase = "new"
    /\ phase' = "started"
    /\ c_running' = TRUE
    /\ conn' = [pc |-> "dial", by |-> "start"]
    /\ UNCHANGED <<c_connected, ws, delay, rx, rc, auth, slept, sret, last_msg>>
    /\ UNCHANGED cfix

\* connect(): websockets.connect returns or raises.  On success the client
\* is marked connected, the delay is reset and _send_auth starts its write.
\* On failure connect returns False to its caller: start creates the
\* _reconnect task, _reconnect doubles the delay and goes back to its test.
connect_dial(ok) ==
    /\ conn.pc = "dial"
    /\ (~ok /\ conn.by = "reconnect") => Len(slept) < MaxSleeps
    /\ IF ok
       THEN /\ ws' = "open"
            /\ c_connected' = TRUE
            /\ delay' = InitialDelay
            /\ slept' = <<>>
            /\ auth' = "inflight"
            /\ conn' = [conn EXCEPT !.pc = "auth"]
            /\ UNCHANGED rc
       ELSE /\ c_connected' = FALSE
            /\ conn' = NoConn
            /\ rc' = "test"
            /\ delay' = IF conn.by = "reconnect" THEN NextDelay(delay) ELSE delay
            /\ UNCHANGED <<ws, slept, auth>>
    /\ UNCHANGED <<c_running, phase, rx, sret, last_msg>>
    /\ UNCHANGED cfix

\* connect(): the write of the auth envelope returns or raises (send turns
\* the exception into False, _send_auth drops the result), on_connect is
\* called and connect returns True; its caller creates the _receive_loop
\* task, and _reconnect ends.
connect_auth(written) ==
    /\ conn.pc = "auth"
    /\ written => ws = "open"
    /\ auth' = IF written THEN "sent" ELSE "failed"
    /\ conn' = NoConn
    /\ rx' = "test"
    /\ rc' = IF conn.by = "reconnect" THEN "done" ELSE rc
    /\ sret' = [kind |-> "auth", connected |-> is_connected, wrote |-> written,
                result |-> SendReturn(is_connected, written),
                fields |-> Envelope("auth")]
    /\ UNCHANGED <<c_running, c_connected, ws, phase, delay, slept, last_msg>>
    /\ UNCHANGED cfix

\* _receive_loop at its while test; after the loop it creates a _reconnect
\* task if the client is running.
receive_test ==
    /\ rx = "test"
    /\ IF c_running /\ is_connected
       THEN rx' = "recv" /\ UNCHANGED rc
       ELSE rx' = "done" /\ rc' = IF c_running THEN "test" ELSE rc
    /\ UNCHANGED <<c_running, c_connected, ws, phase, delay, conn, auth, slept, sret,
                   last_msg>>
    /\ UNCHANGED cfix

\* _receive_loop: recv returns a payload.  json.loads and data.get run on
\* it: JSONDecodeError is logged and the loop goes on, any other exception
\* breaks the loop.
recv(msg) ==
    /\ rx = "recv"
    /\ ws = "open"
    /\ last_msg' = msg
    /\ IF msg = "nonobject"
       THEN rx' = "done" /\ rc' = IF c_running THEN "test" ELSE rc
       ELSE rx' = "test" /\ UNCHANGED rc
    /\ UNCHANGED <<c_running, c_connected, ws, phase, delay, conn, auth, slept, sret>>
    /\ UNCHANGED cfix

\* _receive_loop: recv raises ConnectionClosed
recv_closed ==
    /\ rx = "recv"
    /\ ws = "dead"
    /\ c_connected' = FALSE
    /\ rx' = "done"
    /\ rc' = IF c_running THEN "test" ELSE rc
    /\ last_msg' = "none"
    /\ UNCHANGED <<c_running, ws, phase, delay, conn, auth, slept, sret>>
    /\ UNCHANGED cfix

\* _reconnect at its while test: it goes to sleep for the current delay, or ends
reconnect_test ==
    /\ rc = "test"
    /\ IF c_running /\ ~c_connected
       THEN rc' = "sleep" /\ slept' = Append(slept, delay)
       ELSE rc' = "done" /\ UNCHANGED slept
    /\ UNCHANGED <<c_running, c_connected, ws, phase, delay, rx, conn, auth, sret, last_msg>>
    /\ UNCHANGED cfix

\* _reconnect: the sleep returns and connect() is called
reconnect_wake ==
    /\ rc = "sleep"
    /\ rc' = "connect"
    /\ conn' = [pc |-> "dial", by |-> "reconnect"]
    /\ UNCHANGED <<c_running, c_connected, ws, phase, delay, rx, auth, slept, sret, last_msg>>
    /\ UNCHANGED cfix

\* FractalClient.send of one envelope, from its call to its return.  werr:
\* the write raises although the connection was not seen to close.
client_send(kind, werr) ==
    /\ LET wrote == is_connected /\ ws = "open" /\ ~werr
       IN  sret' = [kind |-> kind, connected |-> is_connected, wrote |-> wrote,
                    result |-> SendReturn(is_connected, wrote),
                    fields |-> Envelope(kind)]
    /\ UNCHANGED <<c_running, c_connected, ws, phase, delay, rx, rc, conn, auth, slept,
                   last_msg>>
    /\ UNCHANGED cfix

\* FractalClient.stop / disconnect, called once start has returned.  The
\* task in _receive_task is cancelled and awaited; _reconnect_task is never
\* assigned, so no _reconnect task is cancelled.
disconnect ==
    /\ phase = "started"
    /\ conn.by # "start"
    /\ phase' = "stopped"
    /\ c_running' = FALSE
    /\ rx' = IF rx \in {"test", "recv"} THEN "cancelled" ELSE rx
    /\ ws' = "none"
    /\ c_connected' = FALSE
    /\ auth' = "none"
    /\ last_msg' = "none"
    /\ UNCHANGED <<delay, rc, conn, slept, sret>>
    /\ UNCHANGED cfix

ClientNext ==
    \/ client_start
    \/ \E ok \in BOOLEAN : connect_dial(ok)
    \/ \E written \in BOOLEAN : connect_auth(written)
    \/ receive_test
    \/ \E msg \in Payloads : recv(msg)
    \/ recv_closed
    \/ reconnect_test
    \/ reconnect_wake
    \/ \E kind \in Kinds, werr \in BOOLEAN : client_send(kind, werr)
    \/ disconnect
    \/ connection_lost

ClientInit ==
    /\ EngineIdle
    /\ QueueIdle
    /\ TransportIdle
    /\ SourcesIdle
    /\ ValidateIdle
    /\ ExtraIdle
    /\ LifecycleIdle

SpecClient == ClientInit /\ [][ClientNext]_vars

(***************************************************************************)
(* Properties of the client.                                               *)
(***************************************************************************)
ReceiveLoopAlive == rx \in {"test", "recv"}
ReconnectAlive == rc \in {"test", "sleep", "connect"}

\* C11: the delay _reconnect sleeps before its k-th attempt since the last
\* successful connect (or since start) is min(2^(k-1), 60): 1, 2, 4, 8, 16, 32,
\* 60, 60, ...; after a successful connect the count starts again at 1; the
\* delay is always within 1..60.
BackoffSequence ==
    /\ \A k \in DOMAIN slept : slept[k] = Min(2^(k - 1), 60)
    /\ delay \in 1..60
    /\ (c_connected /\ conn.pc = "none") => (slept = <<>> /\ delay = 1)

BackoffSequence_witness ==
    /\ rc = "sleep"
    /\ Len(slept) >= 8
    /\ slept[7] = 60 /\ slept[8] = 60
    /\ auth = "sent"

\* C12: once stop has returned, the client is not connected, no receive or
\* reconnect task is alive and no connection attempt is in progress.
StopIsQuiescent ==
    phase = "stopped" =>
        /\ ~is_connected
        /\ ~ReceiveLoopAlive
        /\ ~ReconnectAlive
        /\ conn.pc = "none"

\* C13: a running client that is not inside start always has a receive loop
\* or a reconnect cycle.
NeverWithoutLoopAndReconnect ==
    (c_running /\ conn.by # "start") => (ReceiveLoopAlive \/ ReconnectAlive)

\* C14: send on a client that is not connected returns false and writes
\* nothing; a write that raises yields false; send returns true only if the
\* envelope was written.
SendFailsFast ==
    sret.kind # "none" =>
        /\ ~sret.connected => (~sret.result /\ ~sret.wrote)
        /\ sret.result <=> sret.wrote

SendFailsFast_witness ==
    /\ sret.kind = "data"
    /\ sret.connected /\ ~sret.wrote /\ ~sret.result
    /\ ws = "open"

\* C28: every envelope written to the connection (auth, data, status, pong)
\* has a type key and a top-level timestamp key.
EnvelopeHasTypeAndTimestamp ==
    sret.wrote => {"type", "timestamp"} \subseteq sret.fields

\* C15: the client reports connected only when the auth envelope of the
\* current connection has been written.
UsableOnlyAfterAuth ==
    is_connected => auth = "sent"

\* C16: after a malformed payload the receive loop is still running, the
\* client is still connected and no reconnect cycle was started.
MalformedPayloadSkipped ==
    last_msg \in Malformed => (ReceiveLoopAlive /\ c_connected /\ ~ReconnectAlive)

(***************************************************************************)
(* The engine with sources added and removed while it runs.                *)
(***************************************************************************)
\* One plugin class is registered; "ftp" is a type nobody registered.
Registry == {"csv"}
PluginTypes == {"csv", "ftp"}

\* The credentials of a request, by what they hold for the one required
\* field of the plugin: no entry, an empty value, a value.
Credentials == {"missing", "empty", "valid"}

\* What test_connection of the adapter may return.
TestResults == {<<TRUE, <<"ok">>>>, <<FALSE, <<"bad creds">>>>}

\* The names of credential fields and the label of each.
FieldNames == {"path", "port", "pattern"}
Label(name) ==
    CASE name = "path" -> "Path"
      [] name = "port" -> "Port"
      [] name = "pattern" -> "Pattern"

\* What a credentials map holds under a name: no such key, or the value
\* '' (empty_str), None (null), the number 0 (zero) or a non-empty text.
Absent == "absent"
PyValues == {"empty_str", "null", "zero", "text"}
\* not value
Falsy == {"empty_str", "null", "zero"}

\* DataSourcePlugin.validate_credentials over the declared fields, in their
\* order: (is_valid, error_message); a text is the sequence of its parts.
RECURSIVE validate_credentials(_, _)
validate_credentials(fields, credentials) ==
    IF fields = <<>> THEN <<TRUE, <<>>>>
    ELSE LET cred_field == Head(fields)
         IN  IF cred_field.required /\ credentials[cred_field.name] = Absent
             THEN <<FALSE, <<"Missing required field: ", Label(cred_field.name)>>>>
             ELSE IF cred_field.required /\ credentials[cred_field.name] \in Falsy
             THEN <<FALSE, <<"Field '", Label(cred_field.name), "' cannot be empty">>>>
             ELSE validate_credentials(Tail(fields), credentials)

\* The fields of the one registered plugin type, and the three credentials
\* maps add_data_source is called with.
CsvFields == <<[name |-> "path", required |-> TRUE],
               [name |-> "pattern", required |-> FALSE]>>
CredentialsMap(c) ==
    [name \in FieldNames |->
        IF name # "path" THEN Absent
        ELSE IF c = "missing" THEN Absent
        ELSE IF c = "empty" THEN "empty_str"
        ELSE "text"]

ValidateCredentialsLax(c) == <<TRUE, <<>>>>
ValidateCredentials(c) == validate_credentials(CsvFields, CredentialsMap(c))

\* f"Connection test failed: {message}"
TestFailedMessage(message) == <<"Connection test failed: ">> \o message

\* The _sync_loop task of a source that was started by a call on an event
\* loop other than the engine's: the request handler of the UI makes a loop
\* for the call and closes it when the call returns, and the task, which
\* belongs to that loop, is never run again.
StrandedTask == [NoTask EXCEPT !.pc = "stranded"]

\* uuid4: an id no known source has
FreshIds == Sources \ (config \cup active \cup tasks)

\* ConnectorEngine.add_data_source with _start_data_source.  test: what
\* test_connection returns; connect_ok: whether the adapter's connect
\* succeeds; via_ui: the call comes from the request handler of the UI.
add_data_source(plugin_type, credentials, test, connect_ok, via_ui, id) ==
    /\ aret.n < MaxAdds
    /\ id \in FreshIds
    /\ LET known == plugin_type \in Registry
           valid == ValidateCredentials(credentials)
           tested == known /\ valid[1]
           ok == tested /\ test[1]
           started == ok /\ running /\ connect_ok
       IN  /\ config' = IF ok THEN config \cup {id} ELSE config
           /\ active' = IF started THEN active \cup {id} ELSE active
           /\ tasks' = IF started THEN tasks \cup {id} ELSE tasks
           /\ task' = IF started
                      THEN [task EXCEPT ![id] = IF via_ui THEN StrandedTask ELSE NewTask]
                      ELSE task
           /\ removed' = IF ok THEN removed \ {id} ELSE removed
           /\ aret' = [n |-> aret.n + 1,
                       ok |-> ok,
                       msg |-> IF ~known THEN <<"Unknown plugin type: ", plugin_type>>
                               ELSE IF ~valid[1] THEN valid[2]
                               ELSE IF ~test[1] THEN TestFailedMessage(test[2])
                               ELSE <<id>>,
                       id |-> IF ok THEN id ELSE "none",
                       plugin_type |-> plugin_type,
                       credentials |-> IF known THEN credentials ELSE "none",
                       tested |-> tested,
                       test |-> IF tested THEN test ELSE <<>>,
                       was_running |-> ok /\ running,
                       connected |-> started,
                       via_ui |-> started /\ via_ui,
                       op |-> "add_data_source",
                       eph |-> "none"]
    /\ UNCHANGED <<running, client, c_running, c_connected, ws>>
    /\ UNCHANGED <<qvars, tvars, pvars, xvars, lvars>>

\* What test_connection leaves of the adapter it ran on; the adapters
\* differ.  "unconnected": it did not call the adapter's connect, or connect
\* did not succeed (csv looks at the path only).  "disconnected": it called
\* connect and, having succeeded, disconnect (oracle, redis, sftp,
\* elasticsearch, google_sheets, snowflake).  "connected": it called
\* connect, and what it did next raised, which it answers with (False,
\* message) without a disconnect.
EphAfterTest(test_ok) ==
    IF test_ok THEN {"unconnected", "disconnected"} ELSE {"unconnected", "connected"}

\* The config after test_data_source: config.add_data_source is not called.
ConfigAfterTestSaved(cfg, ok) == IF ok THEN Sources ELSE cfg
ConfigAfterTest(cfg, ok) == cfg

\* ConnectorEngine.test_data_source: the checks of add_data_source, then
\* test_connection on an adapter made for the call (source_id "test"), whose
\* result is returned as it is.
test_data_source(plugin_type, credentials, test, eph) ==
    /\ aret.n < MaxAdds
    /\ eph \in EphAfterTest(test[1])
    /\ LET known == plugin_type \in Registry
           valid == ValidateCredentials(credentials)
           tested == known /\ valid[1]
           ok == tested /\ test[1]
       IN  /\ config' = ConfigAfterTest(config, ok)
           /\ aret' = [NoAdd EXCEPT
                         !.n = aret.n + 1,
                         !.ok = ok,
                         !.msg = IF ~known THEN <<"Unknown plugin type: ", plugin_type>>
                                 ELSE IF ~valid[1] THEN valid[2]
                                 ELSE test[2],
                         !.plugin_type = plugin_type,
                         !.credentials = IF known THEN credentials ELSE "none",
                         !.tested = tested,
                         !.test = IF tested THEN test ELSE <<>>,
                         !.op = "test_data_source",
                         !.eph = IF tested THEN eph ELSE "none"]
    /\ UNCHANGED <<running, active, tasks, task, client, c_running, c_connected, ws>>
    /\ UNCHANGED <<qvars, tvars, pvars, xvars, lvars, removed>>

\* ConnectorEngine.remove_data_source raising.  The task's cancel raises:
\* the exception leaves the call before anything is deleted.  Or the
\* adapter's disconnect raises: the task is gone, the exception leaves the
\* call before the source is taken out of _active_plugins and of the config.
remove_data_source_raises(s) ==
    /\ IF s \in tasks /\ CancelRaises(task[s])
       THEN UNCHANGED <<task, tasks>>
       ELSE /\ s \in active
            /\ task' = IF s \in tasks THEN [task EXCEPT ![s] = Cancel(@)] ELSE task
            /\ tasks' = tasks \ {s}
    /\ removed' = removed \cup {s}
    /\ UNCHANGED <<running, config, active, client, c_running, c_connected, ws>>
    /\ UNCHANGED <<qvars, tvars, pvars, xvars, lvars, aret>>

\* ConnectorEngine.stop when the cancel of a task raises: the flag is down,
\* the tasks before that one in _sync_tasks (cancelled) are cancelled, and
\* the exception leaves the call before any adapter is disconnected, the
\* client is stopped or the maps are cleared.
stop_raises(cancelled) ==
    /\ running
    /\ \E s \in tasks : CancelRaises(task[s])
    /\ cancelled \subseteq {s \in tasks : ~CancelRaises(task[s])}
    /\ running' = FALSE
    /\ task' = [s \in Sources |-> IF s \in cancelled THEN Cancel(task[s]) ELSE task[s]]
    /\ UNCHANGED <<config, active, tasks, client, c_running, c_connected, ws>>
    /\ UNCHANGED <<qvars, tvars, pvars, xvars, lvars, removed, aret>>

\* The engine's own steps, with the connection as start left it.
SourcesNext ==
    \/ \E ok \in BOOLEAN, connecting \in SUBSET Sources : start(ok, connecting)
    \/ stop
    \/ \E s \in Sources : remove_data_source(s)
    \/ \E s \in Sources : _sync_loop(s)
    \/ \E s \in Sources, raises \in BOOLEAN : _trigger_sync(s, raises)
    \/ \E s \in Sources, r \in 1..RecordsPerTick : send(s, r)
    \/ \E s \in Sources : sync_sleep(s)
    \/ \E plugin_type \in PluginTypes, credentials \in Credentials, test \in TestResults,
          connect_ok \in BOOLEAN, via_ui \in BOOLEAN, id \in Sources :
          add_data_source(plugin_type, credentials, test, connect_ok, via_ui, id)
    \/ \E s \in Sources : remove_data_source_raises(s)
    \/ \E cancelled \in SUBSET Sources : stop_raises(cancelled)

\* One source is configured when the engine is made.
SourcesInit ==
    /\ running = FALSE
    /\ config = {"S1"}
    /\ active = {}
    /\ tasks = {}
    /\ task = [s \in Sources |-> NoTask]
    /\ client = FALSE
    /\ c_running = FALSE
    /\ c_connected = FALSE
    /\ ws = "none"
    /\ QueueIdle
    /\ TransportIdle
    /\ SourcesIdle
    /\ ValidateIdle
    /\ ExtraIdle
    /\ LifecycleIdle

SpecSources == SourcesInit /\ [][SourcesNext]_vars

\* test_data_source called on an engine that is started, stopped and has its
\* source removed.
TestNext ==
    \/ \E ok \in BOOLEAN, connecting \in SUBSET Sources : start(ok, connecting)
    \/ stop
    \/ \E s \in Sources : remove_data_source(s)
    \/ \E plugin_type \in PluginTypes, credentials \in Credentials, test \in TestResults,
          eph \in {"unconnected", "disconnected", "connected"} :
          test_data_source(plugin_type, credentials, test, eph)

SpecTest == SourcesInit /\ [][TestNext]_vars

(***************************************************************************)
(* Properties of add_data_source and remove_data_source.                   *)
(***************************************************************************)
\* C17: an add_data_source call that returns failure leaves the config, the
\* active map, the task map and the tasks as they were; with an unregistered
\* plugin type or credentials that are not valid it fails without having
\* called test_connection.
FailedAddChangesNothing ==
    [][aret'.n # aret.n =>
         /\ ~aret'.ok => UNCHANGED <<config, active, tasks, task>>
         /\ (aret'.plugin_type \notin {"csv"} \/ aret'.credentials # "valid") =>
                (~aret'.ok /\ ~aret'.tested)
         /\ (aret'.tested /\ ~aret'.test[1]) => ~aret'.ok
      ]_vars

FailedAddChangesNothing_witness ==
    /\ aret.n > 0 /\ ~aret.ok
    /\ aret.tested /\ ~aret.test[1]
    /\ running
    /\ config = {"S1"} /\ active = {"S1"}

\* C18: when test_connection returns (False, m), add_data_source returns
\* (False, m).
TestMessageReturnedExactly ==
    (aret.n > 0 /\ aret.tested /\ ~aret.test[1]) =>
        (~aret.ok /\ aret.msg = aret.test[2])

\* C19: after an add_data_source call that returned success while the engine
\* was running and whose adapter connected, the source's _sync_loop task is
\* running for as long as the engine runs and the source is active.
AddedSourceIsSyncing ==
    (aret.n > 0 /\ aret.ok /\ aret.was_running /\ aret.connected
        /\ running /\ aret.id \in active /\ aret.id \in tasks) =>
            task[aret.id].pc \in {"loop", "fetch", "send", "sleep"}

\* C20: a source remove_data_source was called for is in none of the task
\* map, the active map and the config, and its task does not run; a call
\* for an id that is in none of them (an unknown id, or one removed before)
\* changes nothing of the engine.
RemovedSourceIsGone ==
    /\ [](\A s \in removed :
            /\ s \notin tasks /\ s \notin active /\ s \notin config
            /\ task[s].pc \in {"none", "done", "cancelled"})
    /\ [][\A s \in removed' \ removed :
            (s \notin tasks /\ s \notin active /\ s \notin config) =>
                UNCHANGED <<running, config, active, tasks, task>>
         ]_vars

EntryKinds == {"ok", "disabled", "unregistered", "refuses", "raises"}
MessageTypes == {"command", "config_update", "ping"}
Commands == {"sync_now", "reconnect", "restart"}

\* config.data_sources is a list: the ids of cfg in its order.
ConfigOrder(cfg) == SelectSeq(<<"S1", "S2">>, LAMBDA s : s \in cfg)

\* What is left of the loop of start once _start_data_source has returned
\* False for an entry.
RestAfterFailureNone(todo) == <<>>
RestAfterFailure(todo) == todo

\* The loop of start over the entries todo, up to the first entry whose
\* adapter is made and awaited in connect: a disabled entry is passed over,
\* for an unregistered type _start_data_source returns False at once.
RECURSIVE NextToConnect(_, _)
NextToConnect(ent, todo) ==
    IF todo = <<>> THEN <<>>
    ELSE IF ent[Head(todo)] = "disabled" THEN NextToConnect(ent, Tail(todo))
    ELSE IF ent[Head(todo)] = "unregistered"
         THEN NextToConnect(ent, RestAfterFailure(Tail(todo)))
    ELSE todo

\* start, or what of it comes after a _start_data_source call, going on
\* with the entries todo: into the next connect, or to its end.
ContinueStart(todo, st) ==
    LET rest == NextToConnect(entries, todo)
    IN  IF rest = <<>>
        THEN /\ call' = NoCall
             /\ status' = Append(st, "running")
        ELSE /\ call' = [op |-> "start", pc |-> "connect", cur |-> Head(rest),
                         todo |-> Tail(rest)]
             /\ status' = st

\* ConnectorEngine.start up to its first await of an adapter: the flag, the
\* status, the client made and started (on_connect publishes 'connected'),
\* then the loop over the entries.
start_begin(connect_ok) ==
    /\ ~running
    /\ call.op = "none"
    /\ running' = TRUE
    /\ client' = TRUE
    /\ c_running' = TRUE
    /\ c_connected' = connect_ok
    /\ ws' = IF connect_ok THEN "open" ELSE "none"
    /\ ContinueStart(ConfigOrder(config),
                     IF connect_ok THEN <<"starting", "connected">> ELSE <<"starting">>)
    /\ UNCHANGED <<config, active, tasks, task, entries, flaky, plugged, cmd>>
    /\ UNCHANGED <<qvars, tvars, pvars, xvars, removed, aret>>

\* _start_data_source resumed from await plugin.connect(): on True the
\* adapter and a new _sync_loop task are put in the maps; False and an
\* exception are logged.  Its caller goes on: start with the next entry,
\* add_data_source returns.  The task of a source added by the request
\* handler is made on the handler's event loop.
_start_data_source(s) ==
    /\ call.pc = "connect"
    /\ call.cur = s
    /\ LET ok == entries[s] = "ok"
       IN  /\ active' = IF ok THEN active \cup {s} ELSE active
           /\ tasks' = IF ok THEN tasks \cup {s} ELSE tasks
           /\ task' = IF ok
                      THEN [task EXCEPT ![s] = IF call.op = "start" THEN NewTask
                                               ELSE StrandedTask]
                      ELSE task
           /\ plugged' = IF ok THEN plugged \cup {s} ELSE plugged
           /\ IF call.op = "start"
              THEN ContinueStart(IF ok THEN call.todo ELSE RestAfterFailure(call.todo),
                                 status)
              ELSE call' = NoCall /\ UNCHANGED status
    /\ UNCHANGED <<running, config, client, c_running, c_connected, ws, entries, flaky, cmd>>
    /\ UNCHANGED <<qvars, tvars, pvars, xvars, removed, aret>>

\* ConnectorEngine.add_data_source, called by the request handler on its own
\* thread, up to await plugin.test_connection(): a registered type, valid
\* credentials.  kind: what the adapter's connect will do.
add_begin(id, kind) ==
    /\ call.op = "none"
    /\ id \in FreshIds
    /\ kind \in {"ok", "refuses", "raises"}
    /\ entries' = [entries EXCEPT ![id] = kind]
    /\ call' = [op |-> "add_data_source", pc |-> "test", cur |-> id, todo |-> <<>>]
    /\ UNCHANGED <<evars, flaky, plugged, status, cmd>>
    /\ UNCHANGED <<qvars, tvars, pvars, xvars, removed, aret>>

\* add_data_source resumed from test_connection: a failed test returns, a
\* passed one saves the entry and, if the engine runs, enters
\* _start_data_source.
add_tested(test_ok) ==
    /\ call.op = "add_data_source"
    /\ call.pc = "test"
    /\ config' = IF test_ok THEN config \cup {call.cur} ELSE config
    /\ call' = IF test_ok /\ running THEN [call EXCEPT !.pc = "connect"] ELSE NoCall
    /\ UNCHANGED <<running, active, tasks, task, client, c_running, c_connected, ws>>
    /\ UNCHANGED <<entries, flaky, plugged, status, cmd>>
    /\ UNCHANGED <<qvars, tvars, pvars, xvars, removed, aret>>

\* ConnectorEngine.stop, called once start has returned: the flag, the
\* status, every task of _sync_tasks cancelled, every adapter of
\* _active_plugins told to disconnect (each call in its own try), the client
\* stopped (on_disconnect publishes 'disconnected'), the maps cleared, the
\* status.
stop_engine ==
    /\ running
    /\ call.op # "start"
    /\ \A s \in tasks : ~CancelRaises(task[s])
    /\ running' = FALSE
    /\ task' = [s \in Sources |-> IF s \in tasks THEN Cancel(task[s]) ELSE task[s]]
    /\ plugged' = plugged \ active
    /\ active' = {}
    /\ tasks' = {}
    /\ c_running' = FALSE
    /\ c_connected' = FALSE
    /\ ws' = "none"
    /\ status' = status \o <<"stopping">>
                        \o (IF client THEN <<"disconnected">> ELSE <<>>)
                        \o <<"stopped">>
    /\ UNCHANGED <<config, client, entries, flaky, call, cmd>>
    /\ UNCHANGED <<qvars, tvars, pvars, xvars, removed, aret>>

\* ConnectorEngine.stop when the cancel of a task raises: the flag is down,
\* 'stopping' is published, the tasks before that one in _sync_tasks
\* (cancelled) are cancelled, and the exception leaves the call.
stop_engine_raises(cancelled) ==
    /\ running
    /\ call.op # "start"
    /\ \E s \in tasks : CancelRaises(task[s])
    /\ cancelled \subseteq {s \in tasks : ~CancelRaises(task[s])}
    /\ running' = FALSE
    /\ task' = [s \in Sources |-> IF s \in cancelled THEN Cancel(task[s]) ELSE task[s]]
    /\ status' = Append(status, "stopping")
    /\ UNCHANGED <<config, active, tasks, client, c_running, c_connected, ws>>
    /\ UNCHANGED <<entries, flaky, plugged, call, cmd>>
    /\ UNCHANGED <<qvars, tvars, pvars, xvars, removed, aret>>

\* What the handler of a command for an active source awaits first.
FirstAwaitSwapped(command) == IF command = "sync_now" THEN "disconnect" ELSE "fetch"
FirstAwait(command) == IF command = "sync_now" THEN "fetch" ELSE "disconnect"

\* The source a command is for: the value of source_id where the handler
\* looks it up in _active_plugins.
CommandFor(type, command, source_id) ==
    type = "command" /\ command \in {"sync_now", "reconnect"} /\ source_id # "none"

\* The client's receive loop calls on_message, which makes a task of
\* _on_fractal_message; the task runs to its first await of the adapter or
\* to its end.  A ping is answered with a pong.
_on_fractal_message(type, command, source_id) ==
    /\ c_running /\ is_connected
    /\ cmd.n < MaxCommands
    /\ cmd.pc \in {"none", "done", "raised"}
    /\ type # "command" => (command = "none" /\ source_id = "none")
    /\ LET found == CommandFor(type, command, source_id) /\ source_id \in active
       IN  cmd' = [n |-> cmd.n + 1,
                   pc |-> IF ~found THEN "done" ELSE FirstAwait(command),
                   type |-> type, command |-> command, source_id |-> source_id,
                   found |-> found,
                   calls |-> IF type = "ping" THEN <<"send">>
                             ELSE IF ~found THEN <<>>
                             ELSE IF FirstAwait(command) = "fetch" THEN <<"fetch_data">>
                             ELSE <<"disconnect">>]
    /\ UNCHANGED <<evars, entries, flaky, plugged, status, call>>
    /\ UNCHANGED <<qvars, tvars, pvars, xvars, removed, aret>>

\* _trigger_sync of a sync_now command resumed by fetch_data: a record,
\* which is sent if the client is connected, or the end of the records (an
\* exception of the adapter is logged).
_handle_fetch(more) ==
    /\ cmd.pc = "fetch"
    /\ more => Len(cmd.calls) <= MaxYield
    /\ cmd' = IF more
              THEN [cmd EXCEPT !.calls = IF client /\ is_connected
                                         THEN Append(@, "send_data")
                                         ELSE Append(@, "no_send")]
              ELSE [cmd EXCEPT !.pc = "done"]
    /\ UNCHANGED <<evars, entries, flaky, plugged, status, call>>
    /\ UNCHANGED <<qvars, tvars, pvars, xvars, removed, aret>>

\* _reconnect_source of a reconnect command resumed from plugin.disconnect():
\* an exception ends the task, otherwise plugin.connect() is awaited.
_reconnect_source_disconnected ==
    /\ cmd.pc = "disconnect"
    /\ plugged' = plugged \ {cmd.source_id}
    /\ cmd' = IF cmd.source_id \in flaky
              THEN [cmd EXCEPT !.pc = "raised"]
              ELSE [cmd EXCEPT !.pc = "connect", !.calls = Append(@, "connect")]
    /\ UNCHANGED <<evars, entries, flaky, status, call>>
    /\ UNCHANGED <<qvars, tvars, pvars, xvars, removed, aret>>

\* _reconnect_source resumed from plugin.connect(): its result is ignored,
\* an exception ends the task.
_reconnect_source_connected ==
    /\ cmd.pc = "connect"
    /\ plugged' = IF entries[cmd.source_id] = "ok" THEN plugged \cup {cmd.source_id}
                  ELSE plugged
    /\ cmd' = [cmd EXCEPT !.pc = IF entries[cmd.source_id] = "raises" THEN "raised"
                                 ELSE "done"]
    /\ UNCHANGED <<evars, entries, flaky, status, call>>
    /\ UNCHANGED <<qvars, tvars, pvars, xvars, removed, aret>>

LifecycleNext ==
    \/ \E connect_ok \in BOOLEAN : start_begin(connect_ok)
    \/ \E s \in Sources : _start_data_source(s)
    \/ \E id \in Sources, kind \in EntryKinds : add_begin(id, kind)
    \/ \E test_ok \in BOOLEAN : add_tested(test_ok)
    \/ stop_engine
    \/ \E cancelled \in SUBSET Sources : stop_engine_raises(cancelled)
    \/ \E type \in MessageTypes, command \in Commands \cup {"none"},
          source_id \in Sources \cup {"none"} :
          _on_fractal_message(type, command, source_id)
    \/ \E more \in BOOLEAN : _handle_fetch(more)
    \/ _reconnect_source_disconnected
    \/ _reconnect_source_connected
    \/ \E s \in Sources : _sync_loop(s)
    \/ \E s \in Sources, raises \in BOOLEAN : _trigger_sync(s, raises)
    \/ \E s \in Sources, r \in 1..RecordsPerTick : send(s, r)
    \/ \E s \in Sources : sync_sleep(s)

\* One or two sources are configured when the engine is made; what their
\* entries and adapters are like does not change.  The adapter of S1 may be
\* one that raises in disconnect.
LifecycleInit ==
    /\ running = FALSE
    /\ config \in {{"S1"}, {"S1", "S2"}}
    /\ active = {}
    /\ tasks = {}
    /\ task = [s \in Sources |-> NoTask]
    /\ client = FALSE
    /\ c_running = FALSE
    /\ c_connected = FALSE
    /\ ws = "none"
    /\ entries \in [Sources -> EntryKinds]
    /\ \A s \in Sources \ config : entries[s] = "ok"
    /\ flaky \in {{}, {"S1"}}
    /\ plugged = {}
    /\ status = <<>>
    /\ call = NoCall
    /\ cmd = NoCmd
    /\ QueueIdle
    /\ TransportIdle
    /\ SourcesIdle
    /\ ValidateIdle
    /\ ExtraIdle

SpecLifecycle == LifecycleInit /\ [][LifecycleNext]_vars

(***************************************************************************)
(* Properties of the engine's calls.                                       *)
(***************************************************************************)
LiveTask(tk) == tk.pc \in {"loop", "fetch", "send", "sleep"}
RunningPublished == status # <<>> /\ status[Len(status)] = "running"
Stopped == ~running /\ status # <<>> /\ status[Len(status)] = "stopped"

\* C21: a stop call cancels every task of the task map, has every active
\* adapter told to disconnect, stops the client and ends with both maps
\* empty, the flag down and 'stopping' ... 'stopped' published.
StopQuiesces ==
    [][(running /\ ~running') =>
          /\ active' = {} /\ tasks' = {}
          /\ \A s \in tasks : ~LiveTask(task'[s])
          /\ plugged' \cap active = {}
          /\ ~c_running' /\ ~c_connected'
          /\ Len(status') >= Len(status) + 2
          /\ status'[Len(status) + 1] = "stopping"
          /\ status'[Len(status')] = "stopped"
      ]_vars

\* C22: a disabled entry never gets an adapter or a task; when start
\* publishes 'running' the engine runs and exactly the enabled entries of a
\* registered type whose adapter connected are active, each with a live
\* _sync_loop task, whatever became of the other entries.
StartSkipsFailures ==
    /\ [](\A s \in Sources : entries[s] = "disabled" =>
            (s \notin active /\ s \notin plugged /\ task[s] = NoTask))
    /\ [][(status' # status /\ status'[Len(status')] = "running") =>
            /\ running'
            /\ \A s \in config :
                  /\ entries[s] = "ok" <=> s \in active'
                  /\ entries[s] = "ok" => (s \in tasks' /\ LiveTask(task'[s]))
         ]_vars

StartSkipsFailures_witness ==
    /\ RunningPublished
    /\ call.op = "none"
    /\ config = {"S1", "S2"}
    /\ entries["S1"] = "raises"
    /\ entries["S2"] = "ok"
    /\ active = {"S2"} /\ plugged = {"S2"}
    /\ task["S2"].pc = "loop"

\* C23: whenever 'running' is published, 'starting' was published first
\* and one of 'connected' and 'disconnected' in between.
StatusBeforeRunning ==
    \A i \in DOMAIN status :
        status[i] = "running" =>
            /\ status[1] = "starting"
            /\ \E j \in 2..(i - 1) : status[j] \in {"connected", "disconnected"}

\* C24: once stop has returned no sync loop enters or goes on with a fetch
\* or a send, and no handler of a command goes on with the adapter call it
\* is suspended in.
NoIOAfterStop ==
    [][Stopped =>
          /\ \A s \in Sources :
                ~(/\ task[s].pc \in {"loop", "fetch", "send"}
                  /\ task'[s].pc \in {"fetch", "send"}
                  /\ task'[s] # task[s])
          /\ ~(cmd.pc \in {"fetch", "disconnect", "connect"} /\ cmd' # cmd)
      ]_vars

ActiveOnlyWhileRunning ==
    ~running => (active = {} /\ tasks = {} /\ plugged = {})

(***************************************************************************)
(* validate_credentials on its own: one call on the fields a plugin        *)
(* declares and a credentials map.                                         *)
(***************************************************************************)
\* The field lists a plugin may declare: at most MaxFields fields of
\* different names, each required or not.
FieldLists ==
    UNION {
        {f \in [1..n -> [name : FieldNames, required : BOOLEAN]] :
            \A i, j \in 1..n : i # j => f[i].name # f[j].name}
        : n \in 0..MaxFields}

CredentialMaps == [FieldNames -> PyValues \cup {Absent}]

ValidateInit ==
    /\ vin \in [fields : FieldLists, credentials : CredentialMaps]
    /\ vret = NoResult
    /\ EngineIdle
    /\ QueueIdle
    /\ TransportIdle
    /\ SourcesIdle
    /\ LifecycleIdle
    /\ ExtraIdle

validate_call ==
    /\ vret = NoResult
    /\ vret' = validate_credentials(vin.fields, vin.credentials)
    /\ UNCHANGED <<qvars, evars, tvars, removed, aret, vin, lvars, xvars>>

SpecValidate == ValidateInit /\ [][validate_call]_vars

\* The required fields the map has no non-empty value for, by position.
Offending(fields, credentials) ==
    {i \in DOMAIN fields :
        /\ fields[i].required
        /\ credentials[fields[i].name] \in {Absent, "empty_str", "null"}}

\* C27: validate_credentials returns (true, no error) exactly when every
\* required field is in the map with a non-empty value, and otherwise
\* (false, error) naming the first such field in declaration order; fields
\* that are not required have no part in it.
ValidRequiredNonEmpty ==
    vret # NoResult =>
        LET bad == Offending(vin.fields, vin.credentials)
        IN  /\ vret[1] <=> bad = {}
            /\ bad = {} => vret[2] = <<>>
            /\ bad # {} =>
                   LET first == CHOOSE i \in bad : \A j \in bad : i <= j
                       label == Label(vin.fields[first].name)
                   IN  vret[2] \in {<<"Missing required field: ", label>>,
                                    <<"Field '", label, "' cannot be empty">>}

\* C34: the handler of a sync_now or reconnect command is never at an await
\* of the adapter of a source (its fetch_data, disconnect or connect) while
\* the periodic task of that source is inside _trigger_sync (at fetch_data
\* or at the send of a record).
OneSyncPerSource ==
    \A s \in Sources :
        ~ /\ s \in tasks /\ task[s].pc \in {"fetch", "send"}
          /\ cmd.source_id = s /\ cmd.pc \in {"fetch", "disconnect", "connect"}

(***************************************************************************)
(* Removal during start and add.  The request handler of DELETE            *)
(* /api/sources/<id> runs remove_data_source on its own thread and its own *)
(* event loop, so the call can run to its end while start or               *)
(* add_data_source, on another loop, is suspended in an adapter's connect. *)
(***************************************************************************)
\* The handler's remove_data_source call from its start to its return, the
\* cancel of the task and the adapter's disconnect returning: the task is
\* cancelled and dropped, the adapter told to disconnect and dropped, and
\* ConfigManager.remove_data_source binds a new list without the entry (the
\* loop of start goes on over the list it began with).
remove_source(s) ==
    /\ s \in tasks => ~CancelRaises(task[s])
    /\ s \in active => s \notin flaky
    /\ task' = IF s \in tasks THEN [task EXCEPT ![s] = Cancel(@)] ELSE task
    /\ tasks' = tasks \ {s}
    /\ plugged' = IF s \in active THEN plugged \ {s} ELSE plugged
    /\ active' = active \ {s}
    /\ config' = WithoutSource(config, s)
    /\ removed' = removed \cup {s}
    /\ UNCHANGED <<running, client, c_running, c_connected, ws>>
    /\ UNCHANGED <<entries, flaky, status, call, cmd>>
    /\ UNCHANGED <<qvars, tvars, pvars, xvars, aret>>

RemoveNext ==
    \/ \E connect_ok \in BOOLEAN : start_begin(connect_ok)
    \/ \E s \in Sources : _start_data_source(s)
    \/ \E id \in Sources, kind \in EntryKinds : add_begin(id, kind)
    \/ \E test_ok \in BOOLEAN : add_tested(test_ok)
    \/ \E s \in Sources : remove_source(s)
    \/ stop_engine

SpecRemove == LifecycleInit /\ [][RemoveNext]_vars

\* C36: every active source has an enabled entry of its id in the persisted
\* config.
ActiveHasConfig ==
    \A s \in active : s \in config /\ entries[s] # "disabled"

(***************************************************************************)
(* stop, followed through its loop over the adapters.  main.py calls start *)
(* and stop from one coroutine; the request handlers of the UI call        *)
(* add_data_source and remove_data_source on their own thread.             *)
(***************************************************************************)
\* stop once the adapters are done with: the client is stopped (on_disconnect
\* publishes 'disconnected'), the maps are cleared, the status is published.
StopFinish(st) ==
    /\ c_running' = FALSE
    /\ c_connected' = FALSE
    /\ ws' = "none"
    /\ active' = {}
    /\ tasks' = {}
    /\ status' = st \o (IF client THEN <<"disconnected">> ELSE <<>>) \o <<"stopped">>
    /\ walk' = NoWalk

\* ConnectorEngine.stop up to its first await of an adapter's disconnect:
\* the flag, the status, every task cancelled, and the iterator made over
\* _active_plugins.values().
stop_begin ==
    /\ running
    /\ call.op # "start"
    /\ walk.pc # "disconnect"
    /\ \A s \in tasks : ~CancelRaises(task[s])
    /\ running' = FALSE
    /\ task' = [s \in Sources |-> IF s \in tasks THEN Cancel(task[s]) ELSE task[s]]
    /\ IF active = {}
       THEN StopFinish(Append(status, "stopping"))
       ELSE /\ \E s \in active :
                  walk' = [pc |-> "disconnect", cur |-> s, over |-> active, visited |-> {s}]
            /\ status' = Append(status, "stopping")
            /\ UNCHANGED <<active, tasks, c_running, c_connected, ws>>
    /\ UNCHANGED <<config, client, entries, flaky, plugged, call, cmd, crit>>
    /\ UNCHANGED <<loops, rtask, notified, leaked>>
    /\ UNCHANGED <<qvars, tvars, pvars, removed, aret>>

\* stop resumed from await plugin.disconnect() (an exception of the adapter
\* is caught and logged): the for statement asks the iterator for the next
\* adapter.  The iterator of a dict raises RuntimeError when the size of
\* the dict is not what it was when the iterator was made, and the error
\* leaves stop; otherwise the loop goes on with an adapter not yet visited,
\* or stop goes to its end.
stop_disconnected ==
    /\ walk.pc = "disconnect"
    /\ plugged' = plugged \ {walk.cur}
    /\ IF Cardinality(active) # Cardinality(walk.over)
       THEN /\ walk' = [walk EXCEPT !.pc = "raised"]
            /\ UNCHANGED <<active, tasks, c_running, c_connected, ws, status>>
       ELSE IF active \ walk.visited # {}
       THEN /\ \E s \in active \ walk.visited :
                  walk' = [walk EXCEPT !.cur = s, !.visited = @ \cup {s}]
            /\ UNCHANGED <<active, tasks, c_running, c_connected, ws, status>>
       ELSE StopFinish(status)
    /\ UNCHANGED <<running, config, task, client, entries, flaky, call, cmd, crit>>
    /\ UNCHANGED <<loops, rtask, notified, leaked>>
    /\ UNCHANGED <<qvars, tvars, pvars, removed, aret>>

\* main.py awaits engine.start and engine.stop from one coroutine: start is
\* not called while stop is suspended.
main_start(connect_ok) ==
    /\ walk.pc # "disconnect"
    /\ start_begin(connect_ok)

StopNext ==
    \/ \E connect_ok \in BOOLEAN : main_start(connect_ok)
    \/ \E s \in Sources : _start_data_source(s)
    \/ \E id \in Sources, kind \in EntryKinds : add_begin(id, kind)
    \/ \E test_ok \in BOOLEAN : add_tested(test_ok)
    \/ \E s \in Sources : remove_source(s)
    \/ stop_begin
    \/ stop_disconnected

SpecStop == LifecycleInit /\ [][StopNext]_vars

\* C35: while stop is suspended inside its loop over the active map, the map
\* has the keys it had when the loop began, and the loop never finds the map
\* changed.
NoMutationDuringIteration ==
    /\ walk.pc = "disconnect" => active = walk.over
    /\ walk.pc # "raised"

(***************************************************************************)
(* A client that is started again after stop.  start and _receive_loop     *)
(* make tasks with asyncio.create_task and keep no reference to a          *)
(* _reconnect task, so a task made under one start can be alive under the  *)
(* next.  Every task is followed from await to await; connect() is one     *)
(* step from websockets.connect to its return.                             *)
(***************************************************************************)
\* Everything but the fields of the client and its tasks.
rfix == <<qvars, running, config, active, tasks, task, client, removed, aret, pvars, lvars,
          crit, walk, rx, rc, conn, auth, slept, sret, last_msg>>

FreeSlot == CHOOSE t \in Chains :
                /\ loops[t] = NoLoop
                /\ \A u \in Chains : loops[u] = NoLoop => t <= u

\* What a _receive_loop task turns into when its loop is left by break or
\* by a false test: "if self._running: asyncio.create_task(self._reconnect())"
\* and the task ends.
LoopLeft == IF c_running THEN [kind |-> "reconnect", pc |-> "new", sock |-> "none"]
            ELSE NoLoop

\* _receive_loop at its while test, connected the value of _connected: into
\* recv() of the connection in _ws, or out of the loop.  recv() raises when
\* another coroutine is waiting in recv() of the same connection, and the
\* exception breaks the loop.
AtWhile(t, connected) ==
    IF /\ c_running /\ connected /\ ws # "none"
       /\ \A u \in Chains \ {t} : ~(loops[u].pc = "recv" /\ loops[u].sock = "cur")
    THEN [kind |-> "receive", pc |-> "recv", sock |-> "cur"]
    ELSE LoopLeft

\* _receive_task once the task of slot t has become nxt
RefAfter(t, nxt) == IF rtask = t /\ nxt.kind # "receive" THEN 0 ELSE rtask

\* FractalClient.start up to its await of connect()
transport_start ==
    /\ phase \in {"new", "stopped"}
    /\ \E t \in Chains : loops[t] = NoLoop
    /\ phase' = "started"
    /\ c_running' = TRUE
    /\ loops' = [loops EXCEPT ![FreeSlot] =
                    [kind |-> "start", pc |-> "connect", sock |-> "none"]]
    /\ UNCHANGED <<c_connected, ws, delay, rtask, notified, leaked>>
    /\ UNCHANGED rfix

\* connect() resumed from websockets.connect, to its return, and what its
\* caller does next.  On success the new connection is put in _ws (the
\* connection that was there is not closed), the auth envelope is sent,
\* on_connect is called and the caller makes the _receive_loop task and
\* ends.  On failure _connected is cleared; start makes a _reconnect task,
\* _reconnect doubles the delay and is at its while test.
transport_connect(t, ok) ==
    /\ loops[t].pc = "connect"
    /\ (ok /\ ws = "open") => leaked < MaxChains
    /\ IF ok
       THEN /\ ws' = "open"
            /\ leaked' = IF ws = "open" THEN leaked + 1 ELSE leaked
            /\ c_connected' = TRUE
            /\ delay' = InitialDelay
            /\ notified' = "on_connect"
            /\ rtask' = t
            /\ loops' = [u \in Chains |->
                            IF u = t THEN [kind |-> "receive", pc |-> "new", sock |-> "none"]
                            ELSE IF loops[u].sock = "cur"
                                 THEN [loops[u] EXCEPT !.sock = IF ws = "open" THEN "old"
                                                                ELSE "closed"]
                            ELSE loops[u]]
       ELSE /\ c_connected' = FALSE
            /\ delay' = IF loops[t].kind = "reconnect" THEN NextDelay(delay) ELSE delay
            /\ loops' = [loops EXCEPT ![t] =
                            IF loops[t].kind = "start"
                            THEN [kind |-> "reconnect", pc |-> "new", sock |-> "none"]
                            ELSE IF c_running
                                 THEN [kind |-> "reconnect", pc |-> "sleep", sock |-> "none"]
                                 ELSE NoLoop]
            /\ UNCHANGED <<ws, leaked, notified, rtask>>
    /\ UNCHANGED <<phase, c_running>>
    /\ UNCHANGED rfix

\* A _receive_loop task runs for the first time.
transport_receive(t) ==
    /\ loops[t].kind = "receive"
    /\ loops[t].pc = "new"
    /\ loops' = [loops EXCEPT ![t] = AtWhile(t, c_connected)]
    /\ rtask' = RefAfter(t, AtWhile(t, c_connected))
    /\ UNCHANGED <<phase, c_running, c_connected, ws, delay, notified, leaked>>
    /\ UNCHANGED rfix

\* recv() returns a payload: JSONDecodeError is logged, any other exception
\* of json.loads and data.get breaks the loop.
transport_recv(t, msg) ==
    /\ loops[t].pc = "recv"
    /\ \/ loops[t].sock = "cur" /\ ws = "open"
       \/ loops[t].sock = "old"
    /\ LET nxt == IF msg = "nonobject" THEN LoopLeft ELSE AtWhile(t, c_connected)
       IN  /\ loops' = [loops EXCEPT ![t] = nxt]
           /\ rtask' = RefAfter(t, nxt)
    /\ UNCHANGED <<phase, c_running, c_connected, ws, delay, notified, leaked>>
    /\ UNCHANGED rfix

\* recv() raises ConnectionClosed: _connected is cleared and the loop is
\* left.  No callback is called.
transport_recv_closed(t) ==
    /\ loops[t].pc = "recv"
    /\ \/ loops[t].sock = "cur" /\ ws = "dead"
       \/ loops[t].sock = "closed"
    /\ c_connected' = FALSE
    /\ loops' = [loops EXCEPT ![t] = LoopLeft]
    /\ rtask' = RefAfter(t, LoopLeft)
    /\ UNCHANGED <<phase, c_running, ws, delay, notified, leaked>>
    /\ UNCHANGED rfix

\* A _reconnect task runs for the first time: its while test.
transport_reconnect(t) ==
    /\ loops[t].kind = "reconnect"
    /\ loops[t].pc = "new"
    /\ loops' = [loops EXCEPT ![t] = IF c_running /\ ~c_connected
                                      THEN [@ EXCEPT !.pc = "sleep"]
                                      ELSE NoLoop]
    /\ UNCHANGED <<phase, c_running, c_connected, ws, delay, rtask, notified, leaked>>
    /\ UNCHANGED rfix

\* _reconnect: the sleep returns and connect() is called; nothing is tested
\* in between.
transport_wake(t) ==
    /\ loops[t].pc = "sleep"
    /\ loops' = [loops EXCEPT ![t].pc = "connect"]
    /\ UNCHANGED <<phase, c_running, c_connected, ws, delay, rtask, notified, leaked>>
    /\ UNCHANGED rfix

\* FractalClient.stop / disconnect, called once start has returned: the
\* task in _receive_task is cancelled, _reconnect_task is None, the
\* connection in _ws is closed, on_disconnect is called.
transport_stop ==
    /\ phase = "started"
    /\ \A t \in Chains : loops[t].kind # "start"
    /\ phase' = "stopped"
    /\ c_running' = FALSE
    /\ loops' = [u \in Chains |->
                    IF u = rtask THEN NoLoop
                    ELSE IF loops[u].sock = "cur" THEN [loops[u] EXCEPT !.sock = "closed"]
                    ELSE loops[u]]
    /\ rtask' = 0
    /\ ws' = "none"
    /\ c_connected' = FALSE
    /\ notified' = "on_disconnect"
    /\ UNCHANGED <<delay, leaked>>
    /\ UNCHANGED rfix

\* The server closes the connection in _ws or the network breaks it.
transport_lost ==
    /\ ws = "open"
    /\ ws' = "dead"
    /\ UNCHANGED <<phase, c_running, c_connected, delay, loops, rtask, notified, leaked>>
    /\ UNCHANGED rfix

\* A replaced connection closes; a task waiting in its recv() will find it
\* closed.
leaked_lost(waiters) ==
    /\ leaked > 0
    /\ waiters \subseteq {t \in Chains : loops[t].sock = "old"}
    /\ Cardinality(waiters) <= 1
    /\ leaked' = leaked - 1
    /\ loops' = [u \in Chains |-> IF u \in waiters THEN [loops[u] EXCEPT !.sock = "closed"]
                                   ELSE loops[u]]
    /\ UNCHANGED <<phase, c_running, c_connected, ws, delay, rtask, notified>>
    /\ UNCHANGED rfix

RestartNext ==
    \/ transport_start
    \/ \E t \in Chains, ok \in BOOLEAN : transport_connect(t, ok)
    \/ \E t \in Chains : transport_receive(t)
    \/ \E t \in Chains, msg \in Payloads : transport_recv(t, msg)
    \/ \E t \in Chains : transport_recv_closed(t)
    \/ \E t \in Chains : transport_reconnect(t)
    \/ \E t \in Chains : transport_wake(t)
    \/ transport_stop
    \/ transport_lost
    \/ \E waiters \in SUBSET Chains : leaked_lost(waiters)

SpecRestart == ClientInit /\ [][RestartNext]_vars

\* C31: at most one _reconnect task and at most one _receive_loop task of
\* the client are alive at any time.
OneLoopOfEachKind ==
    /\ Cardinality({t \in Chains : loops[t].kind = "reconnect"}) <= 1
    /\ Cardinality({t \in Chains : loops[t].kind = "receive"}) <= 1

\* C32: at most one connection is open at any time, the one in _ws and the
\* replaced ones counted, and a client that has been stopped has no open
\* connection.
OneOpenConnection ==
    /\ (IF ws = "open" THEN 1 ELSE 0) + leaked <= 1
    /\ phase = "stopped" => ws # "open"

\* C38: the callback called last is on_connect exactly when the client
\* reports connected.
PublishedStatusAgrees ==
    (notified = "on_connect") <=> is_connected

\* C33: the active map and the task map have the same keys, whatever calls of
\* start, stop, add_data_source and remove_data_source were made.
ActiveAndTaskKeysCoincide ==
    active = tasks

(***************************************************************************)
(* The lock of the queue.  Every OfflineQueue object makes a               *)
(* threading.Lock of its own in __init__, and every operation runs its     *)
(* statements inside "with self._lock".  The objects are on one storage:   *)
(* db_path defaults to the same file for each.  health.get_health and the  *)
(* UI's get_queue_stats make an object at every call.  What the            *)
(* statements do to the table is followed by SpecQueue, one call a step.   *)
(***************************************************************************)
\* Two OfflineQueue objects on the default db_path.
Objs == {"O1", "O2"}

\* The methods that take the lock; _init_db is called by __init__.
LockedOps == {"_init_db", "enqueue", "dequeue", "mark_success", "mark_failure",
              "get_stats", "clear"}

\* A thread calls op on o and reaches "with self._lock".
lock_call(t, o, op) ==
    /\ crit[t].pc = "idle"
    /\ crit' = [crit EXCEPT ![t] = [obj |-> o, op |-> op, pc |-> "wait"]]
    /\ UNCHANGED <<qvars, evars, tvars, pvars, lvars, removed, aret, walk, loops, rtask, notified,
                   leaked>>

\* Lock.__enter__ returns: the lock of the object was free, no thread being
\* inside a with block of that object.
lock_acquire(t) ==
    /\ crit[t].pc = "wait"
    /\ \A u \in Threads : ~(crit[u].obj = crit[t].obj /\ crit[u].pc = "held")
    /\ crit' = [crit EXCEPT ![t].pc = "held"]
    /\ UNCHANGED <<qvars, evars, tvars, pvars, lvars, removed, aret, walk, loops, rtask, notified,
                   leaked>>

\* The body has run (its statements, or its except branch) and the with
\* block is left.
lock_release(t) ==
    /\ crit[t].pc = "held"
    /\ crit' = [crit EXCEPT ![t] = NoCrit]
    /\ UNCHANGED <<qvars, evars, tvars, pvars, lvars, removed, aret, walk, loops, rtask, notified,
                   leaked>>

LockNext ==
    \/ \E t \in Threads, o \in Objs, op \in LockedOps : lock_call(t, o, op)
    \/ \E t \in Threads : lock_acquire(t)
    \/ \E t \in Threads : lock_release(t)

SpecLock == ClientInit /\ [][LockNext]_vars

\* C39: no two threads are inside critical sections on the same storage at
\* the same time, whatever objects they called.
OneInCriticalSection ==
    \A t, u \in Threads :
        (crit[t].pc = "held" /\ crit[u].pc = "held") => t = u

====
